---- MODULE Spec2Model ----
(***************************************************************************)
(* Plume-group tracking of ccs-scripts: the per-cell group state           *)
(* (CellGroup), the snapshot of one time step (PlumeGroups) with its       *)
(* undetermined-cell resolution and merge collapse, and the time-step      *)
(* loop that seeds, resolves, merges and hands the snapshot over.          *)
(*                                                                         *)
(* Python objects are modelled by a heap: a snapshot is a list of object   *)
(* references, and a cell's status and source list live in the heap, so    *)
(* that two snapshots holding the same CellGroup object share its state.   *)
(***************************************************************************)
EXTENDS Integers, Sequences, FiniteSets, TLC

VARIABLES
    input_dict,          \* the configuration as read from the YAML file
    grid,                \* [nx, ny, nz]: extents answered by the Grid
    utils,               \* which PlumeGroups implementation is in use
    inj_wells,           \* sequence of InjectionWellData
    do_plume_tracking,   \* Configuration.do_plume_tracking
    heap,                \* object id -> CellGroup state
    groups,              \* current snapshot: cell index -> object id
    prev_groups,         \* previous snapshot: cell index -> object id
    i,                   \* index of the time step being processed
    pc,                  \* position in the time-step loop
    data,                \* property values read for step i: cell index -> value
    cells_with_co2,      \* indices above the threshold at step i
    ind_to_resolve,      \* resolve_undetermined_cells: ind_to_resolve
    counter,             \* resolve_undetermined_cells: counter
    groups_to_merge,     \* recorded merge requirements / list being applied
    new_groups_to_merge, \* result of the merge collapse
    n_ordinary,          \* history: radius-1 passes done in this call
    n_escalation,        \* history: escalation passes done in this call
    entry_undetermined,  \* history: cells Undetermined when resolve was entered
    prev_frozen,         \* history: cell states of prev_groups when handed over
    pre_merge,           \* history: cell states right before merges are applied
    merged_pairs,        \* history: pairs of sources a merge has joined so far
    n_grid_cells_for_logging, \* key (group label or "?") -> step -> number of cells
    dist_per_group       \* group label -> source -> step -> distance

vars == <<input_dict, grid, utils, inj_wells, do_plume_tracking, heap, groups, prev_groups,
          i, pc, data, cells_with_co2, ind_to_resolve, counter,
          groups_to_merge,
          new_groups_to_merge, n_ordinary, n_escalation, entry_undetermined,
          prev_frozen, pre_merge, merged_pairs, n_grid_cells_for_logging,
          dist_per_group>>

(***************************************************************************)
(* Program constants.                                                      *)
(***************************************************************************)
MAX_STEPS_RESOLVE_CELLS == 20

MAX_NEAREST_GROUPS_SEARCH_DISTANCE == 3

INJ_POINT_THRESHOLD == 60

\* co2_plume_extent.py
INJ_POINT_LATERAL_THRESHOLD == 60

(***************************************************************************)
(* Bounds of the model.                                                    *)
(***************************************************************************)
\* Length of the one-dimensional grid of the time-step loop.
NX == 4

\* Number of time steps (len(unrst.report_steps)).
MaxSteps == 3

\* Largest number of declared injection wells.
NumWells == 2

\* The threshold of the property (a whole number; the values of a step lie
\* one below it, at it, or one above it).
Threshold == 1

\* Edge length of a grid cell, in the length unit of the well coordinates.
CellSize == 100

\* Cells of the line grid on which single calls of resolve are explored.
LineCells == 7

\* Side of the 2 x BoxCells box grids (one flat, one upright).
BoxCells == 2

\* Layers of the one-cell-wide column grid.
ColumnCells == 3

\* Columns of the grid with an inactive position.
HoleCells == 3

\* Longest line of Undetermined cells ending at one HasCO2 cell.
MaxChain == 22

\* Merge collapse on its own: distinct single-source sets, longest
\* requirement, and number of requirements.
MergeSources == 4

MaxRequirementLen == 3

MaxRequirements == 3

\* Cells of the snapshot that is copied.
CopyCells == 2

\* co2_plume_extent.py: number of time steps of the run, and the number of
\* leading steps at which no cell is above the threshold.
ExtentSteps == 13

QuietSteps == 10

(***************************************************************************)
(* Small helpers.                                                          *)
(***************************************************************************)
Max(a, b) == IF a >= b THEN a ELSE b

Min(a, b) == IF a <= b THEN a ELSE b

Abs(a) == IF a >= 0 THEN a ELSE -a

\* Python's `x in seq` for lists.
In(x, seq) == \E n \in 1..Len(seq) : seq[n] = x

\* set(seq)
ToSet(seq) == {seq[n] : n \in 1..Len(seq)}

\* The ascending sequence of the elements of a finite set of integers.
RECURSIVE SetToSortedSeq(_)
SetToSortedSeq(S) ==
    IF S = {} THEN <<>>
    ELSE LET m == CHOOSE x \in S : \A y \in S : x <= y
         IN <<m>> \o SetToSortedSeq(S \ {m})

(***************************************************************************)
(* Grid: all cells active, active index = i + j*nx + k*nx*ny.              *)
(***************************************************************************)
NCells(g) == g.nx * g.ny * g.nz - Cardinality(g.inactive)

Cells == 0..(NCells(grid) - 1)

\* The global index of the position (i, j, k), i running fastest.
global_index(ijk) ==
    ijk[1] + ijk[2] * grid.nx + ijk[3] * grid.nx * grid.ny

\* The global index of the active cell with active index ind: active cells
\* are numbered in the order of their global indices.
global_of(ind) ==
    IF grid.inactive = {} THEN ind
    ELSE CHOOSE gl \in (0..(grid.nx * grid.ny * grid.nz - 1)) \ grid.inactive :
             gl - Cardinality({a \in grid.inactive : a < gl}) = ind

get_ijk(ind) ==
    LET gl == global_of(ind)
    IN <<gl % grid.nx, (gl \div grid.nx) % grid.ny, gl \div (grid.nx * grid.ny)>>

\* -1 for a position that is not active.
get_active_index(ijk) ==
    IF global_index(ijk) \in grid.inactive THEN -1
    ELSE global_index(ijk)
             - Cardinality({a \in grid.inactive : a < global_index(ijk)})

\* Cell-centre coordinates.
get_xyz(ind) ==
    LET ijk == get_ijk(ind)
    IN <<ijk[1] * CellSize, ijk[2] * CellSize, ijk[3] * CellSize>>

\* The (i,j,k) of the cell that contains the point.
find_cell(x, y, z) ==
    <<(2 * x + CellSize) \div (2 * CellSize),
      (2 * y + CellSize) \div (2 * CellSize),
      (2 * z + CellSize) \div (2 * CellSize)>>

(***************************************************************************)
(* CellGroup.                                                              *)
(***************************************************************************)
UNDETERMINED == "UNDETERMINED"

NO_CO2 == "NO_CO2"

HAS_CO2 == "HAS_CO2"

\* CellGroup(): the state of a freshly constructed cell.
CellGroup == [status |-> NO_CO2, all_groups |-> <<>>]

\* set_cell_groups that leaves the status as it is.
set_cell_groups_keeps_status(h, obj, new_groups) ==
    [h EXCEPT ![obj].all_groups = new_groups]

set_cell_groups(h, obj, new_groups) ==
    [h EXCEPT ![obj] = [status |-> HAS_CO2, all_groups |-> new_groups]]

set_undetermined(h, obj) ==
    [h EXCEPT ![obj] = [status |-> UNDETERMINED, all_groups |-> <<>>]]

has_co2(h, obj) == h[obj].status = HAS_CO2

has_no_co2(h, obj) == h[obj].status = NO_CO2

is_undetermined(h, obj) == h[obj].status = UNDETERMINED

(***************************************************************************)
(* PlumeGroups.                                                            *)
(***************************************************************************)
\* PlumeGroups(n): the cells list of a new snapshot built at loop round t.
PlumeGroups(t) == [c \in Cells |-> <<t, c>>]

\* The previous snapshot not retained: a snapshot of the cells built before
\* the first step.
copy_not_retained(cells) == [c \in DOMAIN cells |-> <<0, c>>]

\* PlumeGroups.copy: a new list holding the same CellGroup objects.
copy(cells) == [c \in DOMAIN cells |-> cells[c]]

\* [ind for ind, group in enumerate(self.cells) if group.is_undetermined()]
undetermined_indices(h, cells) ==
    SetToSortedSeq({c \in DOMAIN cells : is_undetermined(h, cells[c])})

\* The loop body of _find_nearest_groups: collect all_groups of the HasCO2
\* cells among the candidate indices, each distinct list once.
RECURSIVE collect_groups(_, _, _, _, _)
collect_groups(h, cells, cand, n, out) ==
    IF n > Len(cand) THEN out
    ELSE LET ind == cand[n]
         IN IF ind # -1 /\ has_co2(h, cells[ind])
               /\ ~In(h[cells[ind]].all_groups, out)
            THEN collect_groups(h, cells, cand, n + 1,
                                Append(out, h[cells[ind]].all_groups))
            ELSE collect_groups(h, cells, cand, n + 1, out)

\* The ranges of the product taken without their last value.
neigs_open(ijk, tol) ==
    LET ilo == Max(ijk[1] - tol, 0)
        ihi == Min(ijk[1] + tol, grid.nx - 1) - 1
        jlo == Max(ijk[2] - tol, 0)
        jhi == Min(ijk[2] + tol, grid.ny - 1) - 1
        klo == Max(ijk[3] - tol, 0)
        khi == Min(ijk[3] + tol, grid.nz - 1) - 1
        ni == Max(ihi - ilo + 1, 0)
        nj == Max(jhi - jlo + 1, 0)
        nk == Max(khi - klo + 1, 0)
    IN [m \in 1..(ni * nj * nk) |->
           <<ilo + ((m - 1) \div (nj * nk)),
             jlo + (((m - 1) \div nk) % nj),
             klo + ((m - 1) % nk)>>]

\* co2_plume_tracking/utils.py: itertools.product over the clipped ranges.
neigs(ijk, tol) ==
    LET ilo == Max(ijk[1] - tol, 0)
        ihi == Min(ijk[1] + tol, grid.nx - 1)
        jlo == Max(ijk[2] - tol, 0)
        jhi == Min(ijk[2] + tol, grid.ny - 1)
        klo == Max(ijk[3] - tol, 0)
        khi == Min(ijk[3] + tol, grid.nz - 1)
        ni == ihi - ilo + 1
        nj == jhi - jlo + 1
        nk == khi - klo + 1
    IN [m \in 1..(ni * nj * nk) |->
           <<ilo + ((m - 1) \div (nj * nk)),
             jlo + (((m - 1) \div nk) % nj),
             klo + ((m - 1) % nk)>>]

find_nearest_groups_tracking(h, cells, ijk, tol) ==
    LET ns == neigs(ijk, tol)
        cand == [m \in 1..Len(ns) |-> get_active_index(ns[m])]
    IN collect_groups(h, cells, cand, 1, <<>>)

\* co2_plume_extent/_utils.py: scan of all HasCO2 cells; the k test compares
\* k2 with itself.
find_nearest_groups_extent(h, cells, ijk, tol) ==
    LET near(ind) ==
            LET ijk2 == get_ijk(ind)
            IN /\ Abs(ijk2[1] - ijk[1]) <= tol
               /\ Abs(ijk2[2] - ijk[2]) <= tol
               /\ Abs(ijk2[3] - ijk2[3]) <= tol
        cand == SetToSortedSeq({c \in DOMAIN cells :
                                   has_co2(h, cells[c]) /\ near(c)})
    IN collect_groups(h, cells, cand, 1, <<>>)

find_nearest_groups(h, cells, ijk, tol) ==
    IF utils = "tracking"
    THEN find_nearest_groups_tracking(h, cells, ijk, tol)
    ELSE find_nearest_groups_extent(h, cells, ijk, tol)

\* The ordinary pass without the removal of [-1] from groups_nearby.
with_unknown_kept(groups_nearby) == groups_nearby

\* if [-1] in groups_nearby: groups_nearby = [x for x in groups_nearby if x != [-1]]
without_unknown(groups_nearby) ==
    IF In(<<-1>>, groups_nearby)
    THEN SelectSeq(groups_nearby, LAMBDA x : x # <<-1>>)
    ELSE groups_nearby

\* One radius-1 pass over ind_to_resolve (the first for loop of the while
\* body): cells are updated in place, in index order.
RECURSIVE ordinary_pass(_, _, _, _, _)
ordinary_pass(h, cells, inds, n, gtm) ==
    IF n > Len(inds) THEN [heap |-> h, groups_to_merge |-> gtm]
    ELSE LET ind == inds[n]
             groups_nearby ==
                 without_unknown(
                     find_nearest_groups(h, cells, get_ijk(ind), 1))
         IN IF Len(groups_nearby) = 1
            THEN ordinary_pass(set_cell_groups(h, cells[ind], groups_nearby[1]),
                               cells, inds, n + 1, gtm)
            ELSE IF Len(groups_nearby) >= 2
            THEN ordinary_pass(set_cell_groups(h, cells[ind], groups_nearby[1]),
                               cells, inds, n + 1,
                               IF In(groups_nearby, gtm) THEN gtm
                               ELSE Append(gtm, groups_nearby))
            ELSE ordinary_pass(h, cells, inds, n + 1, gtm)

\* The wider search made at the largest radius only.
wider_search_largest_only(h, cells, ijk, tolerance) ==
    find_nearest_groups(h, cells, ijk, MAX_NEAREST_GROUPS_SEARCH_DISTANCE)

\* for tolerance in range(2, MAX_NEAREST_GROUPS_SEARCH_DISTANCE + 1): the
\* groups found at the first radius that finds any, or <<>>.
RECURSIVE wider_search(_, _, _, _)
wider_search(h, cells, ijk, tolerance) ==
    IF tolerance > MAX_NEAREST_GROUPS_SEARCH_DISTANCE THEN <<>>
    ELSE LET groups_nearby == find_nearest_groups(h, cells, ijk, tolerance)
         IN IF Len(groups_nearby) >= 1 THEN groups_nearby
            ELSE wider_search(h, cells, ijk, tolerance + 1)

\* The escalation pass (the second for loop of the while body).
RECURSIVE escalation_pass(_, _, _, _, _)
escalation_pass(h, cells, inds, n, updated) ==
    IF n > Len(inds) THEN [heap |-> h, updated |-> updated]
    ELSE LET groups_nearby == wider_search(h, cells, get_ijk(inds[n]), 2)
         IN IF Len(groups_nearby) >= 1
            THEN escalation_pass(set_cell_groups(h, cells[inds[n]], groups_nearby[1]),
                                 cells, inds, n + 1, TRUE)
            ELSE escalation_pass(h, cells, inds, n + 1, updated)

\* The condition of the while loop without its bound on the counter.
loop_condition_unbounded(inds, cnt) ==
    Len(inds) > 0

\* The condition of the while loop.
loop_condition(inds, cnt) ==
    Len(inds) > 0 /\ cnt <= MAX_STEPS_RESOLVE_CELLS

\* if updated: ... counter += 1; continue / else: break, with the result e of
\* the escalation pass.
after_escalation(e, cells, inds, cnt, gtm) ==
    IF e.updated
    THEN [heap |-> e.heap,
          ind_to_resolve |-> undetermined_indices(e.heap, cells),
          counter |-> cnt + 1,
          groups_to_merge |-> gtm,
          escalated |-> TRUE, broke |-> FALSE]
    ELSE [heap |-> e.heap,
          ind_to_resolve |-> inds,
          counter |-> cnt,
          groups_to_merge |-> gtm,
          escalated |-> TRUE, broke |-> TRUE]

\* The rest of a round after the radius-1 pass with result p.
after_ordinary(p, cells, inds, cnt, updated_ind_to_resolve) ==
    IF Len(updated_ind_to_resolve) = Len(inds)
    THEN after_escalation(escalation_pass(p.heap, cells, inds, 1, FALSE),
                          cells, inds, cnt, p.groups_to_merge)
    ELSE [heap |-> p.heap,
          ind_to_resolve |-> updated_ind_to_resolve,
          counter |-> cnt + 1,
          groups_to_merge |-> p.groups_to_merge,
          escalated |-> FALSE, broke |-> FALSE]

\* updated_ind_to_resolve is read off the cells after the radius-1 pass.
recount(p, cells, inds, cnt) ==
    after_ordinary(p, cells, inds, cnt, undetermined_indices(p.heap, cells))

\* One round of the while loop. `broke` tells that the round left by break.
resolve_round(h, cells, inds, cnt, gtm) ==
    recount(ordinary_pass(h, cells, inds, 1, gtm), cells, inds, cnt)

\* The unknown group left unassigned.
assign_unknown_skipped(h, cells, inds, n) == h

\* for ind in ind_to_resolve: self.cells[ind].set_cell_groups([-1])
RECURSIVE assign_unknown(_, _, _, _)
assign_unknown(h, cells, inds, n) ==
    IF n > Len(inds) THEN h
    ELSE assign_unknown(set_cell_groups(h, cells[inds[n]], <<-1>>),
                        cells, inds, n + 1)

\* The extension of d by the first member of g only.
extend_group_first_only(d, g, n) ==
    IF In(g[1], d) THEN d ELSE Append(d, g[1])

\* for new_g in g: if new_g not in d: d.append(new_g)
RECURSIVE extend_group(_, _, _)
extend_group(d, g, n) ==
    IF n > Len(g) THEN d
    ELSE extend_group(IF In(g[n], d) THEN d ELSE Append(d, g[n]), g, n + 1)

\* The body of `for g in groups_to_merge`: g is merged into the first group
\* of new_groups_to_merge that holds the first member of g found in any
\* group; otherwise g is appended.
collapse_one(new, g) ==
    LET hit(c) == {m \in 1..Len(new) : In(c, new[m])}
        cs == {n \in 1..Len(g) : hit(g[n]) # {}}
    IN IF cs = {} THEN Append(new, g)
       ELSE LET c == g[CHOOSE n \in cs : \A n2 \in cs : n <= n2]
                m == CHOOSE m1 \in hit(c) : \A m2 \in hit(c) : m1 <= m2
            IN [new EXCEPT ![m] = extend_group(new[m], g, 1)]

\* "Resolve groups to merge": groups_to_merge -> new_groups_to_merge.
RECURSIVE collapse_from(_, _, _)
collapse_from(gtm, n, new) ==
    IF n > Len(gtm) THEN new
    ELSE collapse_from(gtm, n + 1, collapse_one(new, gtm[n]))

collapse(gtm) == collapse_from(gtm, 1, <<>>)

(***************************************************************************)
(* Merge application by the time-step loop.                                *)
(***************************************************************************)
\* [x for y in full_group for x in y]
RECURSIVE flatten(_)
flatten(full_group) ==
    IF full_group = <<>> THEN <<>>
    ELSE Head(full_group) \o flatten(Tail(full_group))

\* new_group = [x for y in full_group for x in y]; new_group.sort()
new_group_of(full_group) ==
    SortSeq(flatten(full_group), LAMBDA a, b : a < b)

\* A merge that relabels every HasCO2 cell, whatever its source list.
apply_merge_every_cell(h, cells, full_group) ==
    LET new_group == new_group_of(full_group)
        objs == {cells[c] : c \in DOMAIN cells}
    IN [obj \in DOMAIN h |->
           IF obj \in objs /\ has_co2(h, obj)
           THEN [h[obj] EXCEPT !.all_groups = new_group]
           ELSE h[obj]]

\* One full_group applied to every cell of the snapshot.
apply_merge(h, cells, full_group) ==
    LET new_group == new_group_of(full_group)
        touched(obj) ==
            /\ has_co2(h, obj)
            /\ \E n \in 1..Len(full_group) :
                   ToSet(h[obj].all_groups) \cap ToSet(full_group[n]) # {}
        objs == {cells[c] : c \in DOMAIN cells}
    IN [obj \in DOMAIN h |->
           IF obj \in objs /\ touched(obj)
           THEN [h[obj] EXCEPT !.all_groups = new_group]
           ELSE h[obj]]

\* for full_group in groups_to_merge: ...
RECURSIVE apply_merges(_, _, _, _)
apply_merges(h, cells, gtm, n) ==
    IF n > Len(gtm) THEN h
    ELSE apply_merges(apply_merge(h, cells, gtm[n]), cells, gtm, n + 1)

(***************************************************************************)
(* The time-step loop (_find_distances_per_time_step).                     *)
(***************************************************************************)
\* The cell states of a snapshot, by value.
values(h, cells) == [c \in DOMAIN cells |-> h[cells[c]]]

\* The wells that match a newly active cell, by position in inj_wells.
matching_wells(index) ==
    LET ijk == get_ijk(index)
        xyz == get_xyz(index)
        same_cell(well) == ijk = find_cell(well.x, well.y, well.z)
        xyz_close(well) ==
            /\ Abs(xyz[1] - well.x) <= INJ_POINT_THRESHOLD
            /\ Abs(xyz[2] - well.y) <= INJ_POINT_THRESHOLD
            /\ Abs(xyz[3] - well.z) <= INJ_POINT_THRESHOLD
    IN {n \in 1..Len(inj_wells) :
           same_cell(inj_wells[n]) \/ xyz_close(inj_wells[n])}

\* The seeding loop taking the last matching well instead of the first.
seed_cell_last_match(h, obj, index) ==
    IF do_plume_tracking
    THEN LET ms == matching_wells(index)
         IN IF ms # {}
            THEN set_cell_groups(h, obj,
                     <<inj_wells[CHOOSE n \in ms : \A n2 \in ms : n >= n2].number>>)
            ELSE set_undetermined(h, obj)
    ELSE set_cell_groups(h, obj, <<-999>>)

\* The else branch of the seeding loop: a cell without CO2 in the previous
\* snapshot takes the number of the first matching well, or is undetermined.
seed_cell(h, obj, index) ==
    IF do_plume_tracking
    THEN LET ms == matching_wells(index)
         IN IF ms # {}
            THEN set_cell_groups(h, obj,
                     <<inj_wells[CHOOSE n \in ms : \A n2 \in ms : n <= n2].number>>)
            ELSE set_undetermined(h, obj)
    ELSE set_cell_groups(h, obj, <<-999>>)

\* _initialize_groups_from_prev_step_and_inj_wells: for index in
\* cells_with_co2, the cell of the previous snapshot is taken over as it is
\* (the same object), or the new cell is seeded.
RECURSIVE initialize_groups(_, _, _, _, _)
initialize_groups(h, cells, prev, inds, n) ==
    IF n > Len(inds) THEN [heap |-> h, cells |-> cells]
    ELSE LET index == inds[n]
         IN IF has_co2(h, prev[index])
            THEN initialize_groups(h, [cells EXCEPT ![index] = prev[index]],
                                   prev, inds, n + 1)
            ELSE initialize_groups(seed_cell(h, cells[index], index), cells,
                                   prev, inds, n + 1)

\* A source pair a merge group puts under one label.
pairs_of(full_group) ==
    LET ids == ToSet(flatten(full_group))
    IN {<<a, b>> : a \in ids, b \in ids} \ {<<a, a>> : a \in ids}

\* No configuration file: Configuration.__init__ is entered with
\* config_file == "" and the configuration comes from the arguments.
no_input == <<>>

\* Before a step is read there are no property values.
no_data == [c \in Cells |-> 0]

\* The property values a step can have: above the threshold where there is
\* CO2; elsewhere at the threshold in the cells of even index and below it
\* in the cells of odd index.
StepData ==
    {d \in [Cells -> (Threshold - 1)..(Threshold + 1)] :
         \A c \in Cells :
             /\ d[c] = Threshold => c % 2 = 0
             /\ d[c] = Threshold - 1 => c % 2 = 1}

\* np.where(data >= threshold)[0]: the comparison made inclusive.
where_above_inclusive(d) == {c \in DOMAIN d : d[c] >= Threshold}

\* np.where(data > threshold)[0]
where_above(d) == {c \in DOMAIN d : d[c] > Threshold}

\* The start of a loop round up to the entry of resolve_undetermined_cells:
\* the data of step i is read, the snapshot is built and seeded.
InitializeGroups ==
    /\ pc = "loop"
    /\ \E d \in StepData :
         LET with_co2 == where_above(d)
             init == initialize_groups(heap, PlumeGroups(i + 1), prev_groups,
                                       SetToSortedSeq(with_co2), 1)
             cells == init.cells
             h == init.heap
         IN /\ data' = d
            /\ cells_with_co2' = with_co2
            /\ groups' = cells
            /\ heap' = h
            /\ IF do_plume_tracking
               THEN /\ pc' = "while"
                    /\ ind_to_resolve' = undetermined_indices(h, cells)
                    /\ entry_undetermined' =
                           {c \in Cells : is_undetermined(h, cells[c])}
               ELSE /\ pc' = "report"
                    /\ ind_to_resolve' = <<>>
                    /\ entry_undetermined' = {}
    /\ counter' = 1
    /\ groups_to_merge' = <<>>
    /\ new_groups_to_merge' = <<>>
    /\ n_ordinary' = 0
    /\ n_escalation' = 0
    /\ pre_merge' = <<>>
    /\ UNCHANGED <<input_dict, grid, utils, inj_wells, do_plume_tracking, prev_groups, i,
                   prev_frozen, merged_pairs, n_grid_cells_for_logging, dist_per_group>>

\* The state after a round of the while loop with result r.
round_taken(r) ==
    /\ heap' = r.heap
    /\ ind_to_resolve' = r.ind_to_resolve
    /\ counter' = r.counter
    /\ groups_to_merge' = r.groups_to_merge
    /\ n_ordinary' = n_ordinary + 1
    /\ n_escalation' = n_escalation + (IF r.escalated THEN 1 ELSE 0)
    /\ pc' = IF r.broke THEN "break" ELSE "while"

\* One round of the while loop of resolve_undetermined_cells.
ResolveRound ==
    /\ pc = "while"
    /\ loop_condition(ind_to_resolve, counter)
    /\ round_taken(resolve_round(heap, groups, ind_to_resolve, counter,
                                 groups_to_merge))
    /\ UNCHANGED <<input_dict, grid, utils, inj_wells, do_plume_tracking, groups,
                   n_grid_cells_for_logging, dist_per_group,
                   prev_groups, i, data, cells_with_co2, new_groups_to_merge,
                   entry_undetermined, prev_frozen, pre_merge, merged_pairs>>

\* After the loop: the unknown group for what is left, the merge collapse,
\* and the return to the caller.
ResolveReturn ==
    /\ \/ pc = "break"
       \/ pc = "while" /\ ~loop_condition(ind_to_resolve, counter)
    /\ LET h == assign_unknown(heap, groups, ind_to_resolve, 1)
       IN /\ heap' = h
          /\ pre_merge' = values(h, groups)
    /\ new_groups_to_merge' = collapse(groups_to_merge)
    /\ pc' = "merge"
    /\ UNCHANGED <<input_dict, grid, utils, inj_wells, do_plume_tracking, groups,
                   n_grid_cells_for_logging, dist_per_group,
                   prev_groups, i, data, cells_with_co2, ind_to_resolve, counter,
                   groups_to_merge, n_ordinary, n_escalation,
                   entry_undetermined, prev_frozen, merged_pairs>>

\* for full_group in groups_to_merge: ... cell.all_groups = new_group
ApplyMerges ==
    /\ pc = "merge"
    /\ heap' = apply_merges(heap, groups, new_groups_to_merge, 1)
    /\ merged_pairs' = merged_pairs \cup
           UNION {pairs_of(new_groups_to_merge[n]) :
                      n \in 1..Len(new_groups_to_merge)}
    /\ pc' = "report"
    /\ UNCHANGED <<input_dict, grid, utils, inj_wells, do_plume_tracking, groups,
                   n_grid_cells_for_logging, dist_per_group,
                   prev_groups, i, data, cells_with_co2, ind_to_resolve, counter,
                   groups_to_merge, new_groups_to_merge, n_ordinary,
                   n_escalation, entry_undetermined, prev_frozen, pre_merge>>

\* The grid of the runs of co2_plume_extent.py: 1400 active cells.
ExtentGrid == [nx |-> 25, ny |-> 28, nz |-> 2, inactive |-> {}]

\* n_time_steps = len(unrst.report_steps)
n_time_steps == IF grid = ExtentGrid THEN ExtentSteps ELSE MaxSteps

(***************************************************************************)
(* Reporting at the end of a time step.                                    *)
(***************************************************************************)
\* co2_plume_extent/_utils.py _find_unique_groups: the source lists of the
\* HasCO2 cells, each distinct list once, by first occurrence in cell order.
find_unique_groups_extent(h, cells) ==
    collect_groups(h, cells,
                   SetToSortedSeq({c \in DOMAIN cells : has_co2(h, cells[c])}),
                   1, <<>>)

\* co2_plume_tracking/utils.py find_unique_groups: as above, and [-1] once
\* at the first Undetermined cell.
RECURSIVE find_unique_groups_tracking(_, _, _, _)
find_unique_groups_tracking(h, cells, index, unique_groups) ==
    IF index \notin DOMAIN cells THEN unique_groups
    ELSE IF has_co2(h, cells[index])
    THEN find_unique_groups_tracking(h, cells, index + 1,
             IF In(h[cells[index]].all_groups, unique_groups)
             THEN unique_groups
             ELSE Append(unique_groups, h[cells[index]].all_groups))
    ELSE IF is_undetermined(h, cells[index]) /\ ~In(<<-1>>, unique_groups)
    THEN find_unique_groups_tracking(h, cells, index + 1,
                                     Append(unique_groups, <<-1>>))
    ELSE find_unique_groups_tracking(h, cells, index + 1, unique_groups)

find_unique_groups(h, cells) ==
    IF utils = "tracking"
    THEN find_unique_groups_tracking(h, cells, 0, <<>>)
    ELSE find_unique_groups_extent(h, cells)

\* [x.name for x in inj_wells if x.number == y][0]
well_name(y) ==
    LET ns == {n \in 1..Len(inj_wells) : inj_wells[n].number = y}
    IN inj_wells[CHOOSE n \in ns : \A n2 \in ns : n <= n2].name

\* "+".join(names)
RECURSIVE join(_)
join(names) ==
    IF names = <<>> THEN ""
    ELSE IF Len(names) = 1 THEN names[1]
    ELSE names[1] \o "+" \o join(Tail(names))

\* group_string of a reported group g.
group_string(g) ==
    IF do_plume_tracking
    THEN join([n \in 1..Len(g) |-> well_name(g[n])])
    ELSE "ALL"

\* indices_this_group
indices_this_group(h, cells, with_co2, g) ==
    IF do_plume_tracking
    THEN {c \in with_co2 : h[cells[c]].all_groups = g}
    ELSE with_co2

\* The count written to the entry of the first step instead of step t.
log_count_first_step(log, key, t, n) ==
    IF key \in DOMAIN log
    THEN [log EXCEPT ![key][0] = n]
    ELSE log @@ (key :> [[s \in 0..(n_time_steps - 1) |-> 0] EXCEPT ![0] = n])

\* n_grid_cells_for_logging[key][t] = n, the key created with [0] *
\* n_time_steps when it is new.
log_count(log, key, t, n) ==
    IF key \in DOMAIN log
    THEN [log EXCEPT ![key][t] = n]
    ELSE log @@ (key :> [[s \in 0..(n_time_steps - 1) |-> 0] EXCEPT ![t] = n])

\* for g in unique_groups: the cell counts of step t.
RECURSIVE report_groups(_, _, _, _, _, _, _)
report_groups(log, h, cells, with_co2, t, unique_groups, n) ==
    IF n > Len(unique_groups) THEN log
    ELSE IF unique_groups[n] = <<-1>>
    THEN report_groups(
             log_count(log, "?", t,
                 Cardinality({c \in with_co2 :
                                  h[cells[c]].all_groups = <<-1>>})),
             h, cells, with_co2, t, unique_groups, n + 1)
    ELSE report_groups(
             log_count(log, group_string(unique_groups[n]), t,
                 Cardinality(indices_this_group(h, cells, with_co2,
                                                unique_groups[n]))),
             h, cells, with_co2, t, unique_groups, n + 1)

\* The whole part of the square root of v, found between lo and hi.
RECURSIVE isqrt_between(_, _, _)
isqrt_between(v, lo, hi) ==
    IF lo >= hi THEN lo
    ELSE LET mid == (lo + hi + 1) \div 2
         IN IF mid * mid <= v THEN isqrt_between(v, mid, hi)
            ELSE isqrt_between(v, lo, mid - 1)

\* np.sqrt, in whole length units.
sqrt(v) == isqrt_between(v, 0, Min(v, 46340))

\* config.x, config.y: the point of the calculation, used when no well is
\* declared.
calculation_point == [x |-> 0, y |-> 0]

\* The keys of dist: the names of the wells, or "WELL" without wells.
dist_keys ==
    IF Len(inj_wells) = 0 THEN {"WELL"}
    ELSE {inj_wells[n].name : n \in 1..Len(inj_wells)}

\* The point the distances under a key of dist are measured from: for a
\* name, the last well declared under it.
reference_point(key) ==
    IF Len(inj_wells) = 0 THEN calculation_point
    ELSE LET ns == {n \in 1..Len(inj_wells) : inj_wells[n].name = key}
         IN inj_wells[CHOOSE n \in ns : \A n2 \in ns : n >= n2]

\* dist[key][c]: the lateral distance of the centre of cell c.
dist(key, c) ==
    LET dx == get_xyz(c)[1] - reference_point(key).x
        dy == get_xyz(c)[2] - reference_point(key).y
    IN sqrt(dx * dx + dy * dy)

\* The smallest distance under a key of dist over the cells inds.
min_distance(key, inds) ==
    CHOOSE v \in {dist(key, c) : c \in inds} :
        \A c \in inds : v <= dist(key, c)

\* dist[key][indices_this_group].max()
max_distance(key, inds) ==
    CHOOSE v \in {dist(key, c) : c \in inds} :
        \A c \in inds : v >= dist(key, c)

\* np.nan
NaN == -1

\* result: per well number of g under plume tracking (NaN when the group
\* has no cell), per key of dist otherwise (nothing when there is no cell).
result_of(g, inds) ==
    IF do_plume_tracking
    THEN [s \in ToSet(g) |->
             IF inds = {} THEN NaN ELSE max_distance(well_name(s), inds)]
    ELSE IF inds = {} THEN <<>>
    ELSE [key \in dist_keys |-> max_distance(key, inds)]

\* np.zeros(shape=(n_time_steps,))
zeros == [s \in 0..(n_time_steps - 1) |-> 0]

\* dist_per_group[group_string]: created with zeros when new, then the
\* results of step t stored.
store_result(dpg, label, g, result, t) ==
    LET known == IF label \in DOMAIN dpg THEN dpg[label]
                 ELSE IF do_plume_tracking THEN [s \in ToSet(g) |-> zeros]
                 ELSE [key \in dist_keys |-> zeros]
        stored == [s \in DOMAIN known |->
                      IF s \in DOMAIN result
                      THEN [known[s] EXCEPT ![t] = result[s]]
                      ELSE known[s]]
    IN [l \in DOMAIN dpg \cup {label} |-> IF l = label THEN stored ELSE dpg[l]]

\* for g in unique_groups: the distances of step t.
RECURSIVE report_distances(_, _, _, _, _, _, _)
report_distances(dpg, h, cells, with_co2, t, unique_groups, n) ==
    IF n > Len(unique_groups) THEN dpg
    ELSE IF unique_groups[n] = <<-1>>
    THEN report_distances(dpg, h, cells, with_co2, t, unique_groups, n + 1)
    ELSE report_distances(
             store_result(dpg, group_string(unique_groups[n]), unique_groups[n],
                          result_of(unique_groups[n],
                                    indices_this_group(h, cells, with_co2,
                                                       unique_groups[n])),
                          t),
             h, cells, with_co2, t, unique_groups, n + 1)

\* The groups of the step are reported, then prev_groups = groups.copy(),
\* and the next round of the loop.
EndStep ==
    /\ pc = "report"
    /\ n_grid_cells_for_logging' =
           report_groups(n_grid_cells_for_logging, heap, groups,
                         cells_with_co2, i, find_unique_groups(heap, groups), 1)
    /\ dist_per_group' =
           report_distances(dist_per_group, heap, groups,
                            cells_with_co2, i, find_unique_groups(heap, groups), 1)
    /\ prev_groups' = copy(groups)
    /\ prev_frozen' = values(heap, groups)
    /\ i' = i + 1
    /\ pc' = IF i + 1 < n_time_steps THEN "loop" ELSE "done"
    /\ UNCHANGED <<input_dict, grid, utils, inj_wells, do_plume_tracking, heap, groups,
                   data, cells_with_co2, ind_to_resolve, counter, groups_to_merge,
                   new_groups_to_merge, n_ordinary, n_escalation,
                   entry_undetermined, pre_merge, merged_pairs>>

\* Where a well lies along x relative to the centre of its cell: at the
\* centre, or off it so far that the next cell's centre is INJ_POINT_THRESHOLD
\* away.
WellOffsets == {0, CellSize - INJ_POINT_THRESHOLD}

\* The declared names of the wells, in declaration order.
WellNames == <<"A", "B", "C", "D">>

\* A well in cell c of grid g, off the cell centre by off, declared as
\* number n.
well_at(g, c, n, off) ==
    [name |-> WellNames[n],
     number |-> n,
     x |-> (c % g.nx) * CellSize + off,
     y |-> ((c \div g.nx) % g.ny) * CellSize,
     z |-> (c \div (g.nx * g.ny)) * CellSize]

\* The declared wells: numbered 1..n in declaration order, all at the same
\* place within their cells.
WellLists(g) ==
    UNION {{[n \in 1..len |-> well_at(g, pos[n], n, off)] :
                pos \in [1..len -> 0..(NCells(g) - 1)],
                off \in WellOffsets} : len \in 0..NumWells}

\* A heap of freshly constructed cells for the snapshots of rounds 0..last.
fresh_heap(g, last) ==
    [obj \in (0..last) \X (0..(NCells(g) - 1)) |-> CellGroup]

\* The state before the first round of the loop. The loop takes PlumeGroups
\* from co2_plume_extent/_utils.py.
Init ==
    /\ grid = [nx |-> NX, ny |-> 1, nz |-> 1, inactive |-> {}]
    /\ utils = "extent"
    /\ input_dict = no_input
    /\ \/ do_plume_tracking = TRUE /\ inj_wells \in WellLists(grid)
       \/ do_plume_tracking = FALSE /\ inj_wells = <<>>
    /\ heap = fresh_heap(grid, MaxSteps)
    /\ prev_groups = [c \in 0..(NCells(grid) - 1) |-> <<0, c>>]
    /\ groups = [c \in 0..(NCells(grid) - 1) |-> <<0, c>>]
    /\ i = 0
    /\ pc = "loop"
    /\ data = no_data
    /\ n_grid_cells_for_logging = <<>>
    /\ dist_per_group = <<>>
    /\ cells_with_co2 = {}
    /\ ind_to_resolve = <<>>
    /\ counter = 1
    /\ groups_to_merge = <<>>
    /\ new_groups_to_merge = <<>>
    /\ n_ordinary = 0
    /\ n_escalation = 0
    /\ entry_undetermined = {}
    /\ prev_frozen = [c \in 0..(NCells(grid) - 1) |-> CellGroup]
    /\ pre_merge = <<>>
    /\ merged_pairs = {}

Next ==
    \/ InitializeGroups
    \/ ResolveRound
    \/ ResolveReturn
    \/ ApplyMerges
    \/ EndStep

Spec == Init /\ [][Next]_vars

(***************************************************************************)
(* Properties of the time-step loop (specification Spec).                  *)
(***************************************************************************)
\* The state of cell c in the current snapshot.
Current(c) == heap[groups[c]]

IsAscending(seq) == \A n \in 1..(Len(seq) - 1) : seq[n] < seq[n + 1]

\* The sorted union of all source IDs of a merge group.
union_of(full_group) == SetToSortedSeq(ToSet(flatten(full_group)))

\* C5 (merge application result): once the merge groups of a step have been
\* applied, every cell that held one of the source sets of a returned merge
\* group M before the application holds the sorted union of the IDs of M.
C5_MergeApplicationResult ==
    (pc = "report" /\ Len(new_groups_to_merge) >= 1) =>
        \A n \in 1..Len(new_groups_to_merge) : \A c \in Cells :
            (/\ pre_merge[c].status = HAS_CO2
             /\ In(pre_merge[c].all_groups, new_groups_to_merge[n]))
            => Current(c).all_groups = union_of(new_groups_to_merge[n])

\* C6 (merged plumes stay merged): at the end of the step of a merge that
\* joined sources a and b, and of every later step, each HasCO2 cell whose
\* source set contains a also contains b.
C6_MergedPlumesStayMerged ==
    pc = "report" =>
        \A pr \in merged_pairs : \A c \in Cells :
            (Current(c).status = HAS_CO2 /\ pr[1] \in ToSet(Current(c).all_groups))
            => pr[2] \in ToSet(Current(c).all_groups)

\* C7 (group-set canonicalization): the source list of every HasCO2 cell of
\* the current and of the previous snapshot is strictly ascending (sorted,
\* no source ID twice).
C7_GroupSetCanonical ==
    \A c \in Cells :
        /\ Current(c).status = HAS_CO2 => IsAscending(Current(c).all_groups)
        /\ heap[prev_groups[c]].status = HAS_CO2
               => IsAscending(heap[prev_groups[c]].all_groups)

\* C9 (history immutability): while a step is processed, every cell of the
\* retained previous snapshot keeps the status and the source set it had
\* when the snapshot was handed over.
C9_HistoryImmutable ==
    values(heap, prev_groups) = prev_frozen

\* C10 (cell state invariant): a HasCO2 cell has a non-empty source list, a
\* NoCO2 or Undetermined cell an empty one.
C10_CellStateInvariant ==
    \A obj \in DOMAIN heap :
        /\ heap[obj].status = HAS_CO2 => heap[obj].all_groups # <<>>
        /\ heap[obj].status \in {NO_CO2, UNDETERMINED}
               => heap[obj].all_groups = <<>>

\* C10 witness: in the middle of a resolution a cell resolved by the last
\* pass stands next to cells that are still Undetermined and cells without CO2.
C10_Witness ==
    /\ pc = "while"
    /\ n_ordinary >= 1
    /\ \E c \in entry_undetermined : Current(c).status = HAS_CO2
    /\ \E c \in Cells : Current(c).status = UNDETERMINED
    /\ \E c \in Cells : Current(c).status = NO_CO2

(***************************************************************************)
(* A single call of resolve_undetermined_cells on any snapshot             *)
(* (specification SpecResolve).                                            *)
(***************************************************************************)
SnapshotValues ==
    {CellGroup,
     [status |-> UNDETERMINED, all_groups |-> <<>>],
     [status |-> HAS_CO2, all_groups |-> <<1>>],
     [status |-> HAS_CO2, all_groups |-> <<2>>],
     [status |-> HAS_CO2, all_groups |-> <<-1>>]}

\* On the line grid, where the distances are, the cells hold no unknown group.
LineValues == SnapshotValues \ {[status |-> HAS_CO2, all_groups |-> <<-1>>]}

LineGrid == [nx |-> LineCells, ny |-> 1, nz |-> 1, inactive |-> {}]

BoxGrids ==
    {[nx |-> 2, ny |-> BoxCells, nz |-> 1, inactive |-> {}],
     [nx |-> 2, ny |-> 1, nz |-> BoxCells, inactive |-> {}]}

ColumnGrid == [nx |-> 1, ny |-> 1, nz |-> ColumnCells, inactive |-> {}]

\* A grid of two rows with one position that is not active.
HoleGrid == [nx |-> HoleCells, ny |-> 2, nz |-> 1, inactive |-> {1}]

\* A line of n cells, all Undetermined but the last, which has CO2.
chain_snapshot(n) ==
    [c \in 0..(n - 1) |->
        IF c = n - 1 THEN [status |-> HAS_CO2, all_groups |-> <<1>>]
        ELSE [status |-> UNDETERMINED, all_groups |-> <<>>]]

\* The entry of resolve_undetermined_cells(grid): lines 66-70.
resolve_entry ==
    /\ groups = [c \in Cells |-> <<0, c>>]
    /\ prev_groups = [c \in Cells |-> <<0, c>>]
    /\ prev_frozen = [c \in Cells |-> heap[<<0, c>>]]
    /\ ind_to_resolve = undetermined_indices(heap, groups)
    /\ entry_undetermined = {c \in Cells : is_undetermined(heap, groups[c])}
    /\ data = no_data
    /\ n_grid_cells_for_logging = <<>>
    /\ dist_per_group = <<>>
    /\ cells_with_co2 = {c \in Cells : ~has_no_co2(heap, groups[c])}
    /\ counter = 1
    /\ groups_to_merge = <<>>

InitResolve ==
    /\ utils \in {"tracking", "extent"}
    /\ input_dict = no_input
    /\ \/ /\ grid = LineGrid
          /\ heap \in [{0} \X Cells -> LineValues]
       \/ /\ grid \in BoxGrids
          /\ heap \in [{0} \X Cells -> SnapshotValues]
       \/ /\ grid = ColumnGrid
          /\ heap \in [{0} \X Cells -> LineValues]
       \/ /\ grid = HoleGrid
          /\ heap \in [{0} \X Cells -> SnapshotValues]
       \/ \E n \in 2..MaxChain :
            /\ grid = [nx |-> n, ny |-> 1, nz |-> 1, inactive |-> {}]
            /\ heap = [obj \in {0} \X Cells |-> chain_snapshot(n)[obj[2]]]
    /\ resolve_entry
    /\ do_plume_tracking = TRUE
    /\ inj_wells = <<>>
    /\ i = 0
    /\ pc = "while"
    /\ new_groups_to_merge = <<>>
    /\ n_ordinary = 0
    /\ n_escalation = 0
    /\ pre_merge = <<>>
    /\ merged_pairs = {}

NextResolve ==
    \/ ResolveRound
    \/ ResolveReturn

SpecResolve == InitResolve /\ [][NextResolve]_vars

IsReal(all_groups) ==
    all_groups # <<>> /\ \A n \in 1..Len(all_groups) : all_groups[n] >= 1

\* C1 (conservation): when resolve_undetermined_cells returns, no cell is
\* Undetermined, and every cell that was Undetermined on entry is HasCO2
\* with a real source set or with the unknown group [-1].
C1_Conservation ==
    pc = "merge" =>
        /\ \A c \in Cells : Current(c).status # UNDETERMINED
        /\ \A c \in entry_undetermined :
               /\ Current(c).status = HAS_CO2
               /\ Current(c).all_groups = <<-1>> \/ IsReal(Current(c).all_groups)

\* C1 witness: a call returns having resolved one cell to a real set and
\* having given another the unknown group.
C1_Witness ==
    /\ pc = "merge"
    /\ n_ordinary >= 1
    /\ \E c \in entry_undetermined : Current(c).all_groups = <<-1>>
    /\ \E c \in entry_undetermined : IsReal(Current(c).all_groups)

\* C2 as stated (convergence bound): a call makes at most
\* MAX_STEPS_RESOLVE_CELLS radius-1 passes and at most
\* MAX_NEAREST_GROUPS_SEARCH_DISTANCE - 1 escalation passes.
C2_PassesAsClaimed ==
    /\ n_ordinary <= MAX_STEPS_RESOLVE_CELLS
    /\ n_escalation <= MAX_NEAREST_GROUPS_SEARCH_DISTANCE - 1

\* C2 amended: every round of the while loop makes one radius-1 pass and
\* at most one escalation pass, every round that stays in the loop advances
\* the counter, and the counter never passes MAX_STEPS_RESOLVE_CELLS + 1: a
\* call makes at most MAX_STEPS_RESOLVE_CELLS radius-1 passes and at most
\* as many escalation passes as radius-1 passes.
C2_ConvergenceBound ==
    /\ n_escalation <= n_ordinary
    /\ n_ordinary <= MAX_STEPS_RESOLVE_CELLS
    /\ counter <= MAX_STEPS_RESOLVE_CELLS + 1
    /\ pc = "while" => n_ordinary = counter - 1
    /\ pc = "break" => n_ordinary = counter

\* C2 witness: a call that has returned after more escalation passes than
\* there are radii from 2 to MAX_NEAREST_GROUPS_SEARCH_DISTANCE.
C2_Witness ==
    /\ pc = "merge"
    /\ n_escalation > MAX_NEAREST_GROUPS_SEARCH_DISTANCE - 1

(***************************************************************************)
(* The merge collapse on its own (specification SpecMerge).                *)
(***************************************************************************)
SourceSets == {<<n>> : n \in 1..MergeSources}

Injective(f) == \A a \in DOMAIN f : \A b \in DOMAIN f : f[a] = f[b] => a = b

\* What one undetermined cell records: two or more distinct source sets.
Requirements ==
    UNION {{g \in [1..len -> SourceSets] : Injective(g)} :
               len \in 2..MaxRequirementLen}

\* What one call records: distinct requirements, in any order.
RequirementLists ==
    UNION {{gtm \in [1..len -> Requirements] : Injective(gtm)} :
               len \in 0..MaxRequirements}

InitMerge ==
    /\ groups_to_merge \in RequirementLists
    /\ new_groups_to_merge = <<>>
    /\ pc = "recorded"
    /\ grid = [nx |-> 1, ny |-> 1, nz |-> 1, inactive |-> {}]
    /\ utils = "tracking"
    /\ input_dict = no_input
    /\ do_plume_tracking = TRUE
    /\ inj_wells = <<>>
    /\ heap = fresh_heap(grid, 0)
    /\ groups = [c \in 0..0 |-> <<0, c>>]
    /\ prev_groups = [c \in 0..0 |-> <<0, c>>]
    /\ i = 0
    /\ data = no_data
    /\ n_grid_cells_for_logging = <<>>
    /\ dist_per_group = <<>>
    /\ cells_with_co2 = {}
    /\ ind_to_resolve = <<>>
    /\ counter = 1
    /\ n_ordinary = 0
    /\ n_escalation = 0
    /\ entry_undetermined = {}
    /\ prev_frozen = [c \in 0..0 |-> CellGroup]
    /\ pre_merge = <<>>
    /\ merged_pairs = {}

\* The collapse loop run on the recorded requirements.
Collapse ==
    /\ pc = "recorded"
    /\ new_groups_to_merge' = collapse(groups_to_merge)
    /\ pc' = "collapsed"
    /\ UNCHANGED <<input_dict, grid, utils, inj_wells, do_plume_tracking, heap, groups,
                   n_grid_cells_for_logging, dist_per_group,
                   prev_groups, i, data, cells_with_co2, ind_to_resolve, counter,
                   groups_to_merge, n_ordinary, n_escalation,
                   entry_undetermined, prev_frozen, pre_merge, merged_pairs>>

\* The collapse loop run again, on its own output.
CollapseAgain ==
    /\ pc = "collapsed"
    /\ groups_to_merge' = new_groups_to_merge
    /\ new_groups_to_merge' = collapse(new_groups_to_merge)
    /\ pc' = "twice"
    /\ UNCHANGED <<input_dict, grid, utils, inj_wells, do_plume_tracking, heap, groups,
                   n_grid_cells_for_logging, dist_per_group,
                   prev_groups, i, data, cells_with_co2, ind_to_resolve, counter,
                   n_ordinary, n_escalation, entry_undetermined, prev_frozen,
                   pre_merge, merged_pairs>>

NextMerge ==
    \/ Collapse
    \/ CollapseAgain

SpecMerge == InitMerge /\ [][NextMerge]_vars

\* C3 (transitive merge collapse): no source set occurs in two different
\* returned merge groups.
C3_MergeGroupsDisjoint ==
    pc = "collapsed" =>
        \A m \in 1..Len(new_groups_to_merge) :
            \A n \in 1..Len(new_groups_to_merge) :
                m # n => ToSet(new_groups_to_merge[m])
                             \cap ToSet(new_groups_to_merge[n]) = {}

\* C4 (merge idempotence): the collapse of the output of a collapse is that
\* output.
C4_MergeIdempotent ==
    pc = "twice" => new_groups_to_merge = groups_to_merge

(***************************************************************************)
(* A snapshot, its copy, and changes made through the copy                 *)
(* (specification SpecCopy). groups is the snapshot, prev_groups its copy. *)
(***************************************************************************)
CopyGroups == {<<1>>, <<2>>}

InitCopy ==
    /\ grid = [nx |-> CopyCells, ny |-> 1, nz |-> 1, inactive |-> {}]
    /\ \E snap \in [0..(CopyCells - 1) -> SnapshotValues] :
         heap = [obj \in (0..1) \X (0..(CopyCells - 1)) |->
                    IF obj[1] = 0 THEN snap[obj[2]] ELSE CellGroup]
    /\ groups = [c \in 0..(CopyCells - 1) |-> <<0, c>>]
    /\ prev_groups = [c \in 0..(CopyCells - 1) |-> <<0, c>>]
    /\ prev_frozen = [c \in 0..(CopyCells - 1) |-> heap[<<0, c>>]]
    /\ pc = "snapshot"
    /\ utils = "tracking"
    /\ input_dict = no_input
    /\ do_plume_tracking = TRUE
    /\ inj_wells = <<>>
    /\ i = 0
    /\ data = no_data
    /\ n_grid_cells_for_logging = <<>>
    /\ dist_per_group = <<>>
    /\ cells_with_co2 = {}
    /\ ind_to_resolve = <<>>
    /\ counter = 1
    /\ groups_to_merge = <<>>
    /\ new_groups_to_merge = <<>>
    /\ n_ordinary = 0
    /\ n_escalation = 0
    /\ entry_undetermined = {}
    /\ pre_merge = <<>>
    /\ merged_pairs = {}

copy_frame ==
    UNCHANGED <<input_dict, grid, utils, inj_wells, do_plume_tracking, groups, i,
                n_grid_cells_for_logging, dist_per_group,
                data, cells_with_co2, ind_to_resolve, counter, groups_to_merge,
                new_groups_to_merge, n_ordinary, n_escalation,
                entry_undetermined, pre_merge, merged_pairs>>

\* c = snapshot.copy()
Copy ==
    /\ pc = "snapshot"
    /\ prev_groups' = copy(groups)
    /\ prev_frozen' = values(heap, groups)
    /\ pc' = "copied"
    /\ UNCHANGED heap
    /\ copy_frame

\* c.cells[index] = CellGroup() or CellGroup(groups): a new object replaces
\* the cell in the list of the copy.
CopyReplaceCell ==
    /\ pc = "copied"
    /\ \E index \in Cells :
         \E v \in {CellGroup} \cup
                  {[status |-> HAS_CO2, all_groups |-> g] : g \in CopyGroups} :
            /\ prev_groups[index] # <<1, index>>
            /\ prev_groups' = [prev_groups EXCEPT ![index] = <<1, index>>]
            /\ heap' = [heap EXCEPT ![<<1, index>>] = v]
    /\ UNCHANGED <<prev_frozen, pc>>
    /\ copy_frame

\* c.cells[index].set_cell_groups(g)
CopySetCellGroups ==
    /\ pc = "copied"
    /\ \E index \in Cells : \E g \in CopyGroups :
         heap' = set_cell_groups(heap, prev_groups[index], g)
    /\ UNCHANGED <<prev_groups, prev_frozen, pc>>
    /\ copy_frame

\* c.cells[index].set_undetermined()
CopySetUndetermined ==
    /\ pc = "copied"
    /\ \E index \in Cells :
         heap' = set_undetermined(heap, prev_groups[index])
    /\ UNCHANGED <<prev_groups, prev_frozen, pc>>
    /\ copy_frame

\* c.cells[index].all_groups = g, as merge application does on HasCO2 cells.
CopyAssignAllGroups ==
    /\ pc = "copied"
    /\ \E index \in Cells : \E g \in CopyGroups :
         /\ has_co2(heap, prev_groups[index])
         /\ heap' = [heap EXCEPT ![prev_groups[index]].all_groups = g]
    /\ UNCHANGED <<prev_groups, prev_frozen, pc>>
    /\ copy_frame

NextCopy ==
    \/ Copy
    \/ CopyReplaceCell
    \/ CopySetCellGroups
    \/ CopySetUndetermined
    \/ CopyAssignAllGroups

SpecCopy == InitCopy /\ [][NextCopy]_vars

\* C8 (copy independence): whatever is changed through the copy, every cell
\* of the original snapshot keeps the status and source set it had when the
\* copy was made.
C8_CopyIndependent ==
    pc = "copied" => values(heap, groups) = prev_frozen

(***************************************************************************)
(* Further properties of the time-step loop (specification Spec).          *)
(***************************************************************************)
\* The larger of the index differences of two cells along i, j and k.
chebyshev(a, b) ==
    Max(Abs(get_ijk(a)[1] - get_ijk(b)[1]),
        Max(Abs(get_ijk(a)[2] - get_ijk(b)[2]),
            Abs(get_ijk(a)[3] - get_ijk(b)[3])))

\* C11 (plume groups are maximal connected sets): at the end of a time step
\* with plume tracking, two HasCO2 cells with real source sets that lie
\* within Chebyshev distance 1 of each other carry equal source sets.
C11_GroupsAreConnectedComponents ==
    (pc = "report" /\ do_plume_tracking) =>
        \A a \in Cells : \A b \in Cells :
            (/\ chebyshev(a, b) <= 1
             /\ Current(a).status = HAS_CO2 /\ IsReal(Current(a).all_groups)
             /\ Current(b).status = HAS_CO2 /\ IsReal(Current(b).all_groups))
            => Current(a).all_groups = Current(b).all_groups

C13_FreshSnapshot ==
    (pc = "report" /\ do_plume_tracking) =>
        \A c \in Cells :
            /\ Current(c).status = HAS_CO2 <=> data[c] > Threshold
            /\ ~(data[c] > Threshold) => Current(c) = CellGroup

\* C13 witness: the end of a step at which a cell that had CO2 in the
\* previous snapshot has none now, and a cell at the threshold has none.
C13_Witness ==
    /\ pc = "report" /\ do_plume_tracking
    /\ \E c \in Cells :
           prev_frozen[c].status = HAS_CO2 /\ Current(c).status = NO_CO2
    /\ \E c \in Cells : data[c] = Threshold /\ Current(c).status = NO_CO2
    /\ \E c \in Cells : Current(c).status = HAS_CO2

(***************************************************************************)
(* Further properties of a single call of resolve_undetermined_cells       *)
(* (specification SpecResolve).                                            *)
(***************************************************************************)
\* The real source sets carried by the HasCO2 cells within Chebyshev
\* distance 1 of cell c in heap h.
real_sets_nearby(h, cells, c) ==
    {h[cells[b]].all_groups :
         b \in {b \in DOMAIN cells : /\ chebyshev(b, c) <= 1
                                     /\ h[cells[b]].status = HAS_CO2
                                     /\ IsReal(h[cells[b]].all_groups)}}

\* The radius-1 pass of the round that starts in this state, up to and
\* without position n of ind_to_resolve.
pass_before(n) ==
    ordinary_pass(heap, groups, SubSeq(ind_to_resolve, 1, n - 1), 1,
                  groups_to_merge)

\* The same pass up to and with position n.
pass_through(n) ==
    ordinary_pass(heap, groups, SubSeq(ind_to_resolve, 1, n), 1,
                  groups_to_merge)

\* C14 (single-neighbour resolution): when a radius-1 pass comes to an
\* Undetermined cell whose HasCO2 neighbours with real source sets within
\* Chebyshev distance 1 all carry one set S, the cell is given exactly S and
\* no merge requirement is recorded for it.
C14_SingleNeighbourResolution ==
    (pc = "while" /\ loop_condition(ind_to_resolve, counter)) =>
        \A n \in 1..Len(ind_to_resolve) :
            LET c == ind_to_resolve[n]
                S == real_sets_nearby(pass_before(n).heap, groups, c)
            IN Cardinality(S) = 1 =>
                   /\ pass_through(n).heap[groups[c]].status = HAS_CO2
                   /\ pass_through(n).heap[groups[c]].all_groups \in S
                   /\ pass_through(n).groups_to_merge
                          = pass_before(n).groups_to_merge

\* ind_to_resolve visited from its last entry to its first.
reversed(inds) == [n \in 1..Len(inds) |-> inds[Len(inds) + 1 - n]]

\* What the radius-1 search of the cell at index ind finds in heap h.
found_nearby(h, ind) ==
    without_unknown(find_nearest_groups(h, groups, get_ijk(ind), 1))

\* C17 (pass independence): in a radius-1 pass every Undetermined cell's
\* neighbour search finds what it would find in the snapshot the pass
\* started from, and the pass over the cells in the opposite order leaves
\* the same cell states.
C17_PassIndependence ==
    (pc = "while" /\ loop_condition(ind_to_resolve, counter)) =>
        /\ \A n \in 1..Len(ind_to_resolve) :
               found_nearby(pass_before(n).heap, ind_to_resolve[n])
                   = found_nearby(heap, ind_to_resolve[n])
        /\ ordinary_pass(heap, groups, reversed(ind_to_resolve), 1,
                         groups_to_merge).heap
               = pass_through(Len(ind_to_resolve)).heap

\* The source sets carried by the HasCO2 cells of the current snapshot.
sets_of_has_co2 ==
    {Current(c).all_groups : c \in {c \in Cells : Current(c).status = HAS_CO2}}

\* The first cell, by index, that is HasCO2 and carries the source set s.
first_cell_with(s) ==
    CHOOSE c \in Cells :
        /\ Current(c).status = HAS_CO2 /\ Current(c).all_groups = s
        /\ \A b \in Cells :
               (Current(b).status = HAS_CO2 /\ Current(b).all_groups = s)
                   => c <= b

\* C18 (unique groups): for every snapshot, also one that still holds
\* Undetermined cells, find_unique_groups returns the source sets carried
\* by HasCO2 cells and no other, each once, ordered by the first cell that
\* carries them.
C18_UniqueGroups ==
    LET unique_groups == find_unique_groups(heap, groups)
    IN /\ ToSet(unique_groups) = sets_of_has_co2
       /\ \A a, b \in 1..Len(unique_groups) :
              a < b => /\ unique_groups[a] # unique_groups[b]
                       /\ first_cell_with(unique_groups[a])
                              < first_cell_with(unique_groups[b])

(***************************************************************************)
(* Properties of the reporting (specification Spec).                       *)
(***************************************************************************)
\* The count recorded under "?" for step t (none recorded counts as 0).
unresolved_count(t) ==
    IF "?" \in DOMAIN n_grid_cells_for_logging
    THEN n_grid_cells_for_logging["?"][t]
    ELSE 0

\* The cells of the current snapshot that carry the unknown group.
unknown_cells == {c \in Cells : Current(c).all_groups = <<-1>>}

ConfigCells == 2

\* Largest number of entries under "injection_wells".
ConfigWells == 2

ConfigGrid == [nx |-> ConfigCells, ny |-> 1, nz |-> 1, inactive |-> {}]

\* A missing "z" is stored as None.
None == -1

\* The keys an entry under "injection_wells" may hold.
WellKeySets == {{"name", "x", "y", "z"}, {"name", "x", "y"}, {"name", "y", "z"}}

\* The entries under "injection_wells": entry n names WellNames[n] and lies
\* at the centre of cell c; only the values of the keys present are read.
WellInfos(n) ==
    {[keys |-> ks, name |-> WellNames[n], x |-> c * CellSize, y |-> 0, z |-> 0] :
         ks \in WellKeySets, c \in 0..(ConfigCells - 1)}

WellInfoLists ==
    UNION {{f \in [1..len -> UNION {WellInfos(n) : n \in 1..ConfigWells}] :
                \A n \in 1..len : f[n] \in WellInfos(n)} : len \in 0..ConfigWells}

\* The entries under "distance_calculations".
CalculationInfos ==
    {[keys |-> {"type", "x", "y"}, type |-> "POINT"],
     [keys |-> {"type", "x", "y"}, type |-> "PLUME_EXTENT"],
     [keys |-> {"type"}, type |-> "PLUME_EXTENT"],
     [keys |-> {"x", "y"}, type |-> "POINT"]}

CalculationLists == {<<>>} \cup {<<c>> : c \in CalculationInfos}

\* The configurations read from the file: which of the three top-level keys
\* are present, and for a present key its value.
InputDicts ==
    {[keys |-> ks, do_plume_tracking |-> t, injection_wells |-> w,
      distance_calculations |-> dc] :
        ks \in SUBSET {"do_plume_tracking", "injection_wells",
                       "distance_calculations"},
        t \in BOOLEAN,
        w \in {[is_list |-> FALSE, items |-> <<>>]}
                  \cup {[is_list |-> TRUE, items |-> l] : l \in WellInfoLists},
        dc \in {[is_list |-> FALSE, items |-> <<>>]}
                  \cup {[is_list |-> TRUE, items |-> l] : l \in CalculationLists}}

\* A configuration holds a value only under the keys it has.
well_formed(d) ==
    /\ "do_plume_tracking" \notin d.keys => d.do_plume_tracking = FALSE
    /\ "injection_wells" \notin d.keys =>
           d.injection_wells = [is_list |-> FALSE, items |-> <<>>]
    /\ "distance_calculations" \notin d.keys =>
           d.distance_calculations = [is_list |-> FALSE, items |-> <<>>]

\* self.do_plume_tracking after the check of "injection_wells": read from
\* the input, and switched off with a warning when the key
\* "injection_wells" is missing.
tracking_of(d) ==
    IF "injection_wells" \in d.keys
    THEN "do_plume_tracking" \in d.keys /\ d.do_plume_tracking
    ELSE FALSE

\* args_required of an entry under "injection_wells".
args_required(tracking) ==
    IF tracking THEN {"name", "x", "y", "z"} ELSE {"name", "x", "y"}

\* The entries under "injection_wells" that the loop over them visits.
well_items(d) ==
    IF "injection_wells" \in d.keys THEN d.injection_wells.items ELSE <<>>

\* self.injection_wells after the loop over the entries.
injection_wells_of(d) ==
    [n \in 1..Len(well_items(d)) |->
        [name |-> well_items(d)[n].name,
         x |-> well_items(d)[n].x,
         y |-> well_items(d)[n].y,
         z |-> IF "z" \in well_items(d)[n].keys THEN well_items(d)[n].z ELSE None,
         number |-> n]]

\* An entry under "distance_calculations" ends the run: no "type", or no
\* "x" or "y" where the calculation needs its own point.
calculation_rejected(c, n_wells) ==
    \/ "type" \notin c.keys
    \/ /\ c.type = "POINT" \/ (c.type = "PLUME_EXTENT" /\ n_wells = 0)
       /\ ~({"x", "y"} \subseteq c.keys)

\* The configuration ends in sys.exit(1).
config_exits(d) ==
    \/ "injection_wells" \in d.keys /\ ~d.injection_wells.is_list
    \/ \E n \in 1..Len(well_items(d)) :
           ~(args_required(tracking_of(d)) \subseteq well_items(d)[n].keys)
    \/ "distance_calculations" \notin d.keys
    \/ ~d.distance_calculations.is_list
    \/ \E n \in 1..Len(d.distance_calculations.items) :
           calculation_rejected(d.distance_calculations.items[n],
                                Len(well_items(d)))
    \/ Len(d.distance_calculations.items) = 0

\* Configuration.__init__ with a configuration file; a configuration that
\* is accepted hands its wells and its tracking switch to the time-step
\* loop, a rejected one ends the process.
Configure ==
    /\ pc = "config"
    /\ IF config_exits(input_dict)
       THEN /\ pc' = "abort"
            /\ UNCHANGED <<inj_wells, do_plume_tracking>>
       ELSE /\ pc' = "loop"
            /\ inj_wells' = injection_wells_of(input_dict)
            /\ do_plume_tracking' = tracking_of(input_dict)
    /\ UNCHANGED <<input_dict, grid, utils, heap, groups, prev_groups, i, data,
                   cells_with_co2, ind_to_resolve, counter, groups_to_merge,
                   new_groups_to_merge, n_ordinary, n_escalation,
                   entry_undetermined, prev_frozen, pre_merge, merged_pairs,
                   n_grid_cells_for_logging, dist_per_group>>

InitConfig ==
    /\ input_dict \in {d \in InputDicts : well_formed(d)}
    /\ grid = ConfigGrid
    /\ utils = "extent"
    /\ do_plume_tracking = FALSE
    /\ inj_wells = <<>>
    /\ heap = fresh_heap(grid, MaxSteps)
    /\ prev_groups = [c \in 0..(NCells(grid) - 1) |-> <<0, c>>]
    /\ groups = [c \in 0..(NCells(grid) - 1) |-> <<0, c>>]
    /\ i = 0
    /\ pc = "config"
    /\ data = no_data
    /\ n_grid_cells_for_logging = <<>>
    /\ dist_per_group = <<>>
    /\ cells_with_co2 = {}
    /\ ind_to_resolve = <<>>
    /\ counter = 1
    /\ groups_to_merge = <<>>
    /\ new_groups_to_merge = <<>>
    /\ n_ordinary = 0
    /\ n_escalation = 0
    /\ entry_undetermined = {}
    /\ prev_frozen = [c \in 0..(NCells(grid) - 1) |-> CellGroup]
    /\ pre_merge = <<>>
    /\ merged_pairs = {}

NextConfig ==
    \/ Configure
    \/ Next

SpecConfig == InitConfig /\ [][NextConfig]_vars

\* The configuration asks for plume tracking.
tracking_requested ==
    "do_plume_tracking" \in input_dict.keys /\ input_dict.do_plume_tracking

\* The number of injection sources the configuration declares.
declared_sources == Len(well_items(input_dict))

\* C16 (missing injection sources are fatal): once a configuration that
\* asks for plume tracking and declares no injection source has been
\* handled, the run has been aborted and no time step has been processed.
C16_MissingSourcesFatal ==
    (pc # "config" /\ tracking_requested /\ declared_sources = 0)
        => pc = "abort" /\ i = 0 /\ cells_with_co2 = {}

\* The label of a set S of well numbers: the names of its wells, each once,
\* in ascending order of their numbers, joined with "+".
canonical_label(S) ==
    join([n \in 1..Cardinality(S) |-> well_name(SetToSortedSeq(S)[n])])

\* C19 (canonical group label): the wells are numbered 1..n in declaration
\* order; when a step is reported under plume tracking, every group other
\* than [-1] is reported under the names of its wells, each once, in
\* ascending order of their numbers, joined with "+", and [-1] is reported
\* under no label.
C19_CanonicalLabel ==
    /\ \A n \in 1..Len(inj_wells) : inj_wells[n].number = n
    /\ (pc = "report" /\ do_plume_tracking) =>
           \A n \in 1..Len(find_unique_groups(heap, groups)) :
               LET g == find_unique_groups(heap, groups)[n]
               IN g # <<-1>> => group_string(g) = canonical_label(ToSet(g))
    /\ (pc \in {"loop", "done"} /\ do_plume_tracking) =>
           DOMAIN n_grid_cells_for_logging \subseteq
               {"?"} \cup {canonical_label(S) :
                               S \in SUBSET (1..Len(inj_wells)) \ {{}}}

(***************************************************************************)
(* Properties of the order of the time steps (specification Spec).         *)
(***************************************************************************)

\* C20 (strict sequencing): the step index only ever grows by one, when a
\* step has been reported; the snapshot retained as previous at the end of a
\* step is the step's snapshot as it stands after resolution and merges;
\* the seeding of the next step reads exactly that snapshot, taking over its
\* HasCO2 cells and building new cells elsewhere; before step 0 the previous
\* snapshot is all NoCO2.
C20_StrictSequencing ==
    [][/\ i' = i \/ (pc = "report" /\ i' = i + 1)
       /\ (pc = "report" /\ pc' # "report") =>
              /\ prev_groups' = groups
              /\ values(heap', prev_groups') = values(heap, groups)
       /\ (pc = "loop" /\ pc' # "loop") =>
              /\ values(heap, prev_groups) = prev_frozen
              /\ i = 0 => \A c \in Cells :
                              heap[prev_groups[c]].status = NO_CO2
              /\ \A c \in cells_with_co2' :
                     IF heap[prev_groups[c]].status = HAS_CO2
                     THEN /\ groups'[c] = prev_groups[c]
                          /\ heap'[groups'[c]] = heap[prev_groups[c]]
                     ELSE groups'[c] = <<i + 1, c>>]_vars

\* C20 witness: a later step has just been seeded from a previous snapshot
\* in which a merge had joined two wells, and took over a merged cell.
C20_Witness ==
    /\ pc = "while" /\ n_ordinary = 0 /\ i >= 1
    /\ merged_pairs # {}
    /\ \E c \in cells_with_co2 :
           /\ groups[c] = prev_groups[c]
           /\ Len(Current(c).all_groups) >= 2
           /\ prev_frozen[c] = Current(c)

(***************************************************************************)
(* Properties of the neighbourhood search (specification SpecResolve).     *)
(***************************************************************************)

\* The positions (i, j, k) of the grid, active or not.
Positions ==
    (0..(grid.nx - 1)) \X (0..(grid.ny - 1)) \X (0..(grid.nz - 1))

\* The source sets of the active HasCO2 cells whose i, j and k each differ
\* from those of position ijk by at most tol.
sets_within(ijk, tol) ==
    {Current(b).all_groups :
         b \in {b \in Cells : /\ Current(b).status = HAS_CO2
                              /\ Abs(get_ijk(b)[1] - ijk[1]) <= tol
                              /\ Abs(get_ijk(b)[2] - ijk[2]) <= tol
                              /\ Abs(get_ijk(b)[3] - ijk[3]) <= tol}}

NoRepeats(seq) ==
    \A a, b \in 1..Len(seq) : a # b => seq[a] # seq[b]

\* C21 (neighbourhood search of co2_plume_tracking/utils.py): for every
\* position, every radius from 1 to MAX_NEAREST_GROUPS_SEARCH_DISTANCE and
\* every snapshot, _find_nearest_groups returns the source sets of the
\* active HasCO2 cells within the radius along every axis, each once, and
\* nothing else.
C21_NearestGroupsTracking ==
    \A ijk \in Positions : \A tol \in 1..MAX_NEAREST_GROUPS_SEARCH_DISTANCE :
        LET out == find_nearest_groups_tracking(heap, groups, ijk, tol)
        IN /\ ToSet(out) = sets_within(ijk, tol)
           /\ NoRepeats(out)

\* C21 witness: on the grid with an inactive position, the search of
\* co2_plume_tracking/utils.py has been used by a pass, and from some cell
\* it finds one set at radius 1 and a second one only at radius 2.
C21_Witness ==
    /\ utils = "tracking" /\ grid.inactive # {} /\ n_ordinary >= 1
    /\ \E c \in Cells :
           /\ Len(find_nearest_groups_tracking(heap, groups, get_ijk(c), 1)) = 1
           /\ Len(find_nearest_groups_tracking(heap, groups, get_ijk(c), 2)) = 2

\* C22 (neighbourhood search of co2_plume_extent/_utils.py): for every
\* position, radius and snapshot, every source set that
\* _find_nearest_groups returns is carried by a HasCO2 cell within the
\* radius along each of the axes i, j and k.
C22_NearestGroupsExtent ==
    \A ijk \in Positions : \A tol \in 1..MAX_NEAREST_GROUPS_SEARCH_DISTANCE :
        ToSet(find_nearest_groups_extent(heap, groups, ijk, tol))
            \subseteq sets_within(ijk, tol)

(***************************************************************************)
(* Properties of the escalation (specification SpecResolve).               *)
(***************************************************************************)

\* The cell states after the radius-1 pass of the round that starts in this
\* state.
after_pass == pass_through(Len(ind_to_resolve)).heap

\* The cell states when the escalation pass of this round comes to position
\* n of ind_to_resolve.
escalation_before(n) ==
    escalation_pass(after_pass, groups, SubSeq(ind_to_resolve, 1, n - 1),
                    1, FALSE).heap

\* The radii from 2 on at which the search from cell c finds a source set.
radii_finding(h, c) ==
    {r \in 2..MAX_NEAREST_GROUPS_SEARCH_DISTANCE :
         find_nearest_groups(h, groups, get_ijk(c), r) # <<>>}

\* The first source set found from cell c at the smallest such radius.
first_found(h, c) ==
    find_nearest_groups(h, groups, get_ijk(c),
        CHOOSE r \in radii_finding(h, c) :
            \A r2 \in radii_finding(h, c) : r <= r2)[1]

\* C23 (escalation): a round of the loop escalates only if its radius-1
\* pass left the number of Undetermined cells unchanged; the escalation
\* gives each cell, when it comes to it, the first source set found at the
\* smallest radius from 2 to MAX_NEAREST_GROUPS_SEARCH_DISTANCE that finds
\* any, and leaves it Undetermined if none does; it records no merge
\* requirement; and when it resolves no cell the loop is left and no
\* further pass is made.
C23_Escalation ==
    [][/\ (pc = "while" /\ n_escalation' > n_escalation) =>
              /\ Len(undetermined_indices(after_pass, groups))
                     = Len(ind_to_resolve)
              /\ groups_to_merge' = groups_to_merge
              /\ \A n \in 1..Len(ind_to_resolve) :
                     LET c == ind_to_resolve[n]
                         h == escalation_before(n)
                     IN heap'[groups[c]] =
                            IF radii_finding(h, c) = {}
                            THEN [status |-> UNDETERMINED, all_groups |-> <<>>]
                            ELSE [status |-> HAS_CO2,
                                  all_groups |-> first_found(h, c)]
              /\ pc' = IF \A c \in Cells : heap'[groups[c]] = heap[groups[c]]
                       THEN "break" ELSE "while"
       /\ pc = "break" =>
              /\ pc' = "merge"
              /\ n_ordinary' = n_ordinary /\ n_escalation' = n_escalation]_vars

\* C23 witness: the first round escalated, resolved a cell and left another
\* one Undetermined.
C23_Witness ==
    /\ pc = "while" /\ n_ordinary = 1 /\ n_escalation = 1
    /\ \E c \in entry_undetermined : Current(c).status = HAS_CO2
    /\ \E c \in entry_undetermined : Current(c).status = UNDETERMINED

(***************************************************************************)
(* The time-step loop of co2_plume_extent.py (specification SpecExtent):   *)
(* _find_distances_per_time_step with its own reading of the cells with    *)
(* CO2 and its own seeding; resolution, merges and reporting are those of  *)
(* the loop above, with PlumeGroups of co2_plume_extent/_utils.py.         *)
(***************************************************************************)

\* The property values of a step: below the threshold everywhere but in
\* cells 0 and 584, which are at the threshold or above it.
extent_data(v0, v584) ==
    [c \in Cells |-> IF c = 0 THEN v0
                     ELSE IF c = 584 THEN v584
                     ELSE Threshold - 1]

ExtentStepData(t) ==
    IF t < QuietSteps THEN {extent_data(Threshold, Threshold)}
    ELSE {extent_data(v0, v584) : v0, v584 \in Threshold..(Threshold + 1)}

\* temp_inj3_list
temp_inj3_list ==
    <<584, 585, 586, 609, 610, 611, 636, 637, 638,
      1333, 1334, 1335, 1357, 1358, 1379, 1380>>

\* _temp_add_well3(i, plumeix)
temp_add_well3(t, plumeix) ==
    IF t > 11
    THEN plumeix \o temp_inj3_list
             \o (IF t > 14 THEN <<587, 612>> ELSE <<>>)
             \o (IF t > 20 THEN <<588, 613>> ELSE <<>>)
    ELSE plumeix

\* The wells that match a newly active cell: lateral distance only.
matching_wells_lateral(index) ==
    LET xyz == get_xyz(index)
    IN {n \in 1..Len(inj_wells) :
           /\ Abs(xyz[1] - inj_wells[n].x) <= INJ_POINT_LATERAL_THRESHOLD
           /\ Abs(xyz[2] - inj_wells[n].y) <= INJ_POINT_LATERAL_THRESHOLD}

\* The else branch of the seeding loop of co2_plume_extent.py.
seed_cell_lateral(h, obj, index) ==
    LET ms == matching_wells_lateral(index)
    IN IF ms # {}
       THEN set_cell_groups(h, obj,
                <<inj_wells[CHOOSE n \in ms : \A n2 \in ms : n <= n2].number>>)
       ELSE set_undetermined(h, obj)

\* for index in cells_with_co2: ... of co2_plume_extent.py
RECURSIVE initialize_groups_lateral(_, _, _, _, _)
initialize_groups_lateral(h, cells, prev, inds, n) ==
    IF n > Len(inds) THEN [heap |-> h, cells |-> cells]
    ELSE LET index == inds[n]
         IN IF has_co2(h, prev[index])
            THEN initialize_groups_lateral(
                     h, [cells EXCEPT ![index] = prev[index]], prev, inds, n + 1)
            ELSE initialize_groups_lateral(
                     seed_cell_lateral(h, cells[index], index), cells,
                     prev, inds, n + 1)

\* groups = PlumeGroups(n_cells) at loop round t: the cells of the new
\* snapshot come into being; of the older cells those that the previous
\* snapshot holds remain, the others are no longer referenced.
allocate(t) ==
    [obj \in {prev_groups[c] : c \in Cells} \cup ({t} \X Cells) |->
        IF obj[1] = t THEN CellGroup ELSE heap[obj]]

\* The start of a loop round of co2_plume_extent.py up to the entry of
\* resolve_undetermined_cells.
ExtentInitializeGroups ==
    /\ pc = "loop"
    /\ \E d \in ExtentStepData(i) :
       \E with_co2 \in {temp_add_well3(i, SetToSortedSeq(where_above(d)))} :
       \E init \in {initialize_groups_lateral(allocate(i + 1),
                                              PlumeGroups(i + 1),
                                              prev_groups, with_co2, 1)} :
            /\ data' = d
            /\ cells_with_co2' = ToSet(with_co2)
            /\ groups' = init.cells
            /\ heap' = init.heap
            /\ ind_to_resolve' = undetermined_indices(init.heap, init.cells)
            /\ entry_undetermined' =
                   {c \in Cells : is_undetermined(init.heap, init.cells[c])}
    /\ pc' = "while"
    /\ counter' = 1
    /\ groups_to_merge' = <<>>
    /\ new_groups_to_merge' = <<>>
    /\ n_ordinary' = 0
    /\ n_escalation' = 0
    /\ pre_merge' = <<>>
    /\ UNCHANGED <<input_dict, grid, utils, inj_wells, do_plume_tracking,
                   prev_groups, i, prev_frozen, merged_pairs,
                   n_grid_cells_for_logging, dist_per_group>>

\* The state before the first round of the loop, with one well in cell 0.
InitExtent ==
    /\ grid = ExtentGrid
    /\ utils = "extent"
    /\ input_dict = no_input
    /\ do_plume_tracking = TRUE
    /\ inj_wells = <<well_at(grid, 0, 1, 0)>>
    /\ heap = fresh_heap(grid, 0)
    /\ prev_groups = [c \in 0..(NCells(grid) - 1) |-> <<0, c>>]
    /\ groups = [c \in 0..(NCells(grid) - 1) |-> <<0, c>>]
    /\ i = 0
    /\ pc = "loop"
    /\ data = no_data
    /\ n_grid_cells_for_logging = <<>>
    /\ dist_per_group = <<>>
    /\ cells_with_co2 = {}
    /\ ind_to_resolve = <<>>
    /\ counter = 1
    /\ groups_to_merge = <<>>
    /\ new_groups_to_merge = <<>>
    /\ n_ordinary = 0
    /\ n_escalation = 0
    /\ entry_undetermined = {}
    /\ prev_frozen = [c \in 0..(NCells(grid) - 1) |-> CellGroup]
    /\ pre_merge = <<>>
    /\ merged_pairs = {}

NextExtent ==
    \/ ExtentInitializeGroups
    \/ ResolveRound
    \/ ResolveReturn
    \/ ApplyMerges
    \/ EndStep

SpecExtent == InitExtent /\ [][NextExtent]_vars

\* C24 (threshold classification in co2_plume_extent.py): at every time
\* step, once the step is seeded, the cells taken as having CO2, and the
\* cells of the snapshot that are not NoCO2, are exactly the cells whose
\* value is above the threshold.
C24_ThresholdClassification ==
    pc \in {"while", "break", "merge", "report"} =>
        /\ cells_with_co2 = where_above(data)
        /\ {c \in Cells : Current(c).status # NO_CO2} = where_above(data)

(***************************************************************************)
(* Properties of the distances per group (specification Spec).             *)
(***************************************************************************)

\* The source sets other than [-1] carried by HasCO2 cells of the current
\* snapshot.
present_groups == sets_of_has_co2 \ {<<-1>>}

\* C25 (distance series per group): when a step i is reported under plume
\* tracking, then for every group g other than [-1] present at the step and
\* every well s of g, entry i of the series of s under the label of g is
\* the largest distance to s over the cells that carry g; under a label of
\* no present group entry i is 0; the entries of other steps are left as
\* they are; and every series has one entry per time step.
C25_DistanceSeries ==
    [][(pc = "report" /\ do_plume_tracking) =>
          /\ \A g \in present_groups : \A s \in ToSet(g) :
                 LET ds == {dist(well_name(s), c) :
                                c \in {c \in Cells :
                                           /\ Current(c).status = HAS_CO2
                                           /\ Current(c).all_groups = g}}
                 IN /\ dist_per_group'[group_string(g)][s][i] \in ds
                    /\ \A d \in ds :
                           d <= dist_per_group'[group_string(g)][s][i]
          /\ \A l \in DOMAIN dist_per_group' :
                 /\ (\A g \in present_groups : group_string(g) # l) =>
                        \A s \in DOMAIN dist_per_group'[l] :
                            dist_per_group'[l][s][i] = 0
                 /\ \A s \in DOMAIN dist_per_group'[l] :
                        DOMAIN dist_per_group'[l][s] = 0..(n_time_steps - 1)
          /\ \A l \in DOMAIN dist_per_group :
                 \A s \in DOMAIN dist_per_group[l] :
                     \A t \in (0..(n_time_steps - 1)) \ {i} :
                         dist_per_group'[l][s][t] = dist_per_group[l][s][t]
      ]_vars

\* C25 witness: under the label of a merged group the series of one well
\* holds a distance for an earlier step, 0 for a step in which the group was
\* absent, and a different distance for the last step.
C25_Witness ==
    /\ pc = "done" /\ do_plume_tracking
    /\ \E l \in DOMAIN dist_per_group : \E s \in DOMAIN dist_per_group[l] :
           /\ Cardinality(DOMAIN dist_per_group[l]) >= 2
           /\ dist_per_group[l][s][0] > 0
           /\ dist_per_group[l][s][1] = 0
           /\ dist_per_group[l][s][2] > dist_per_group[l][s][0]

(***************************************************************************)
(* Properties of the unknown group (specifications SpecResolve and Spec).  *)
(***************************************************************************)

\* C26 (the unknown group only when nothing real is in range): when
\* resolve_undetermined_cells returns, a cell that was Undetermined on entry
\* and now carries [-1] has no HasCO2 cell with a real source set within
\* Chebyshev distance MAX_NEAREST_GROUPS_SEARCH_DISTANCE.
C26_UnknownOnlyOutOfRange ==
    pc = "merge" =>
        \A c \in entry_undetermined :
            Current(c).all_groups = <<-1>> =>
                ~\E b \in Cells :
                     /\ chebyshev(b, c) <= MAX_NEAREST_GROUPS_SEARCH_DISTANCE
                     /\ Current(b).status = HAS_CO2
                     /\ IsReal(Current(b).all_groups)

(***************************************************************************)
(* The time-step loop with three wells (specification SpecThreeWells).     *)
(***************************************************************************)
\* Cells of the one-row grid of the runs with three wells.
MergeCells == 5

\* Three declared wells, at the centres of cells 0, 2 and 4.
ThreeWells(g) == [n \in 1..3 |-> well_at(g, 2 * (n - 1), n, 0)]

\* The state before the first round of the loop, with plume tracking.
InitThreeWells ==
    /\ grid = [nx |-> MergeCells, ny |-> 1, nz |-> 1, inactive |-> {}]
    /\ utils = "extent"
    /\ input_dict = no_input
    /\ do_plume_tracking = TRUE
    /\ inj_wells = ThreeWells(grid)
    /\ heap = fresh_heap(grid, MaxSteps)
    /\ prev_groups = [c \in 0..(NCells(grid) - 1) |-> <<0, c>>]
    /\ groups = [c \in 0..(NCells(grid) - 1) |-> <<0, c>>]
    /\ i = 0
    /\ pc = "loop"
    /\ data = no_data
    /\ n_grid_cells_for_logging = <<>>
    /\ dist_per_group = <<>>
    /\ cells_with_co2 = {}
    /\ ind_to_resolve = <<>>
    /\ counter = 1
    /\ groups_to_merge = <<>>
    /\ new_groups_to_merge = <<>>
    /\ n_ordinary = 0
    /\ n_escalation = 0
    /\ entry_undetermined = {}
    /\ prev_frozen = [c \in 0..(NCells(grid) - 1) |-> CellGroup]
    /\ pre_merge = <<>>
    /\ merged_pairs = {}

SpecThreeWells == InitThreeWells /\ [][Next]_vars

\* C27 (merges never drop a source): when the merge groups of a step are
\* applied, every HasCO2 cell's source set afterwards contains its source
\* set from immediately before.
C27_MergesKeepSources ==
    [][pc = "merge" =>
          \A c \in Cells :
              Current(c).status = HAS_CO2 =>
                  ToSet(Current(c).all_groups)
                      \subseteq ToSet(heap'[groups[c]].all_groups)
      ]_vars

\* C28 (the unknown group persists): a cell that carried [-1] at the end of
\* the previous step and is above the threshold in this step carries exactly
\* [-1] throughout this step, whatever real groups are next to it and
\* whatever merges are applied; by induction it keeps [-1] for as long as
\* it stays above the threshold.
C28_UnknownPersists ==
    (pc \in {"while", "break", "merge", "report"} /\ i >= 1) =>
        \A c \in cells_with_co2 :
            (/\ prev_frozen[c].status = HAS_CO2
             /\ prev_frozen[c].all_groups = <<-1>>) =>
                /\ Current(c).status = HAS_CO2
                /\ Current(c).all_groups = <<-1>>

C28_Witness ==
    /\ pc = "report"
    /\ i >= 1
    /\ new_groups_to_merge # <<>>
    /\ \E c \in cells_with_co2 :
           /\ prev_frozen[c].status = HAS_CO2
           /\ prev_frozen[c].all_groups = <<-1>>
           /\ \E b \in Cells :
                  /\ chebyshev(b, c) = 1
                  /\ Current(b).status = HAS_CO2
                  /\ IsReal(Current(b).all_groups)

\* C29 (source IDs are valid): at every point of a run with plume tracking,
\* each HasCO2 cell's source list is exactly [-1] or holds only numbers of
\* declared wells (1..number of wells), so -1 never stands beside a real
\* number; and no set of a returned merge group is [-1].
C29_ValidSources ==
    do_plume_tracking =>
        /\ \A c \in Cells :
               Current(c).status = HAS_CO2 =>
                   \/ Current(c).all_groups = <<-1>>
                   \/ /\ Current(c).all_groups # <<>>
                      /\ ToSet(Current(c).all_groups)
                             \subseteq 1..Len(inj_wells)
        /\ \A n \in 1..Len(new_groups_to_merge) :
               ~In(<<-1>>, new_groups_to_merge[n])

C29_Witness ==
    /\ pc = "report"
    /\ do_plume_tracking
    /\ new_groups_to_merge # <<>>
    /\ \E c \in Cells : Current(c).all_groups = <<-1>>
    /\ \E c \in Cells : Cardinality(ToSet(Current(c).all_groups)) = 2

(***************************************************************************)
(* Properties of the merge collapse (specification SpecMerge).             *)
(***************************************************************************)
\* The source sets occurring anywhere in a list of groups.
sets_in(list) == UNION {ToSet(list[n]) : n \in 1..Len(list)}

\* C30 (the merge collapse preserves its input): the source sets occurring
\* in the returned merge groups are exactly those occurring in the recorded
\* requirements, and every recorded requirement lies within a single
\* returned merge group.
C30_CollapsePreservesInput ==
    pc \in {"collapsed", "twice"} =>
        /\ sets_in(new_groups_to_merge) = sets_in(groups_to_merge)
        /\ \A n \in 1..Len(groups_to_merge) :
               \E m \in 1..Len(new_groups_to_merge) :
                   ToSet(groups_to_merge[n])
                       \subseteq ToSet(new_groups_to_merge[m])

C30_Witness ==
    /\ pc = "collapsed"
    /\ Len(groups_to_merge) = 3
    /\ Len(new_groups_to_merge) = 2
    /\ \E m \in 1..2 : Len(new_groups_to_merge[m]) >= 3

====
